---- MODULE Spec2Model ----
(***************************************************************************)
(* Easy-Read-Toolkit: the document capture-to-storage pipeline.            *)
(*                                                                         *)
(*   backend/server.js        users and documents tables, the documents    *)
(*                            API and /upload/pdf                          *)
(*   PDFUploadScreen          pick, extract, simplify, save, leave guard   *)
(*   UrlImportScreen          extract with retry, simplify, save, guard    *)
(*                                                                         *)
(* Text values (content, title, extracted text) are sequences of one-      *)
(* character strings, so that trim() and length are computed.  Short       *)
(* labels (type, sourceTag, fileName, fileUrl) are strings; "" stands for  *)
(* an absent value (the server stores `x || null`).                        *)
(***************************************************************************)
EXTENDS Integers, Sequences, FiniteSets, TLC

(* ------------------------------ bounds -------------------------------- *)
MaxUsers == 2
MaxDocs == 2
MaxClock == 1001
MaxMs == 1

(* --------------------------- text helpers ----------------------------- *)
Rep(c, n) == [i \in 1..n |-> c]

IsSpace(c) == c \in {" ", "\n", "\t"}

RECURSIVE TrimStart(_)
TrimStart(s) ==
    IF s = <<>> THEN <<>>
    ELSE IF IsSpace(Head(s)) THEN TrimStart(Tail(s)) ELSE s

RECURSIVE TrimEnd(_)
TrimEnd(s) ==
    IF s = <<>> THEN <<>>
    ELSE IF IsSpace(s[Len(s)]) THEN TrimEnd(SubSeq(s, 1, Len(s) - 1)) ELSE s

Trim(s) == TrimEnd(TrimStart(s))

(* ============================ server.js =============================== *)
VARIABLES
    users,       \* rows of the users table
    documents,   \* rows of the documents table
    tokens,      \* user ids for which a signed token has been issued
    nextDocId,   \* createDocumentId(): fresh random ids, modelled as a counter
    clock,       \* Date.now() in ms
    resp         \* the response to the last request the server answered

serverVars == <<users, documents, tokens, nextDocId, clock, resp>>

NoToken == 0
ClampMax == 20000
TitleMax == 500
MsPerSecond == 1000

Emails == {"a@x", "A@x", "b@x"}
EmailNorm(e) == IF e = "A@x" THEN "a@x" ELSE e    \* email.trim().toLowerCase()

UserIds == {u.id : u \in users}
DocIds == {d.id : d \in documents}

getUserById(id) == {u \in users : u.id = id}
getUserByEmail(email) == {u \in users : u.email = email}
generateUserId == clock
getDocumentById(id) == {d \in documents : d.id = id}

clamp(s) == IF Len(s) > ClampMax THEN SubSeq(s, 1, ClampMax) ELSE s

\* authenticate: 0 when the request is rejected with 401, else the user id
authenticate(token) ==
    IF token = NoToken THEN 0
    ELSE IF getUserById(token) = {} THEN 0
    ELSE token

Response(op, status, user, doc, list) ==
    [op |-> op, status |-> status, user |-> user, doc |-> doc, list |-> list]

\* documentSchema.parse(req.body)
documentSchema(p) ==
    /\ Len(p.title) >= 1
    /\ Len(p.title) <= TitleMax
    /\ Len(p.content) >= 1
    /\ p.type # ""

\* the row createDocument inserts
NewDocument(userId, p) ==
    [id |-> nextDocId, userId |-> userId, title |-> p.title,
     content |-> p.content, type |-> p.type, sourceTag |-> p.sourceTag,
     fileName |-> p.fileName, fileUrl |-> p.fileUrl, createdAt |-> clock]

createDocument(userId, p) ==
    /\ documents' = documents \cup {NewDocument(userId, p)}
    /\ nextDocId' = nextDocId + 1

\* datetime(createdAt): SQLite drops the fraction of a second
datetime(t) == t \div MsPerSecond

RECURSIVE SeqsOf(_)
SeqsOf(S) ==
    IF S = {} THEN {<<>>}
    ELSE UNION {{<<d>> \o r : r \in SeqsOf(S \ {d})} : d \in S}

\* SELECT id, title, content, type, sourceTag, fileName, fileUrl, createdAt
DocumentRow(d) ==
    [id |-> d.id, title |-> d.title, content |-> d.content, type |-> d.type,
     sourceTag |-> d.sourceTag, fileName |-> d.fileName,
     fileUrl |-> d.fileUrl, createdAt |-> d.createdAt]

\* variant: the WHERE userId = ? clause is missing
getDocumentsForUser_noWhere(userId) ==
    {s \in SeqsOf({DocumentRow(d) : d \in documents}) :
        \A i \in 1..Len(s) : \A j \in 1..Len(s) :
            i < j => datetime(s[i].createdAt) >= datetime(s[j].createdAt)}

\* the row orders SELECT ... WHERE userId = ? ORDER BY datetime(createdAt) DESC
\* may return
getDocumentsForUser(userId) ==
    {s \in SeqsOf({DocumentRow(d) : d \in {e \in documents : e.userId = userId}}) :
        \A i \in 1..Len(s) : \A j \in 1..Len(s) :
            i < j => datetime(s[i].createdAt) >= datetime(s[j].createdAt)}

\* variant: the owner test is missing
deleteDocumentForUserOk_anyOwner(userId, docId) ==
    getDocumentById(docId) # {}

deleteDocumentForUserOk(userId, docId) ==
    \E d \in getDocumentById(docId) : d.userId = userId

deleteDocumentForUser(userId, docId) ==
    IF deleteDocumentForUserOk(userId, docId)
    THEN documents' = {d \in documents : d.id # docId}
    ELSE documents' = documents

(* ---- routes ---- *)
Names == {"", "Ann"}
Passwords == {"", "pw"}

\* POST /api/auth/register
Register(name, email, password) ==
    /\ Cardinality(users) < MaxUsers
    /\ IF name = "" \/ password = ""
       THEN /\ resp' = Response("register", 400, 0, 0, <<>>)
            /\ UNCHANGED <<users, tokens>>
       ELSE IF getUserByEmail(email) # {}
       THEN /\ resp' = Response("register", 400, 0, 0, <<>>)
            /\ UNCHANGED <<users, tokens>>
       ELSE IF \/ generateUserId \in UserIds
               \/ \E u \in users : u.email = EmailNorm(email)
       THEN \* the INSERT violates PRIMARY KEY or UNIQUE and throws
            /\ resp' = Response("register", 500, 0, 0, <<>>)
            /\ UNCHANGED <<users, tokens>>
       ELSE /\ users' = users \cup
                   {[id |-> generateUserId, name |-> name,
                     email |-> EmailNorm(email)]}
            /\ tokens' = tokens \cup {generateUserId}
            /\ resp' = Response("register", 201, generateUserId, 0, <<>>)
    /\ UNCHANGED <<documents, nextDocId, clock>>

\* POST /api/auth/login; verifyPassword: every account was registered with
\* the one password that is not empty
Login(email, password) ==
    /\ LET found == getUserByEmail(email) IN
       IF found = {} \/ password # "pw"
       THEN resp' = Response("login", 401, 0, 0, <<>>)
       ELSE resp' = Response("login", 200,
                             (CHOOSE u \in found : TRUE).id, 0, <<>>)
    /\ UNCHANGED <<users, documents, tokens, nextDocId, clock>>

\* POST /api/auth/logout
Logout(token) ==
    /\ resp' = Response("logout",
                        IF authenticate(token) = 0 THEN 401 ELSE 200,
                        authenticate(token), 0, <<>>)
    /\ UNCHANGED <<users, documents, tokens, nextDocId, clock>>

\* PUT /api/auth/profile: name = "" and email = "" are the absent fields
UpdateProfile(token, name, email) ==
    /\ LET uid == authenticate(token) IN
       IF uid = 0
       THEN /\ resp' = Response("profile", 401, 0, 0, <<>>)
            /\ UNCHANGED users
       ELSE LET user == CHOOSE u \in users : u.id = uid IN
            IF email # "" /\ email # user.email /\ getUserByEmail(email) # {}
            THEN /\ resp' = Response("profile", 400, uid, 0, <<>>)
                 /\ UNCHANGED users
            ELSE /\ users' = (users \ {user}) \cup
                        {[id |-> uid,
                          name |-> IF name # "" THEN name ELSE user.name,
                          email |-> IF email # "" THEN email ELSE user.email]}
                 /\ resp' = Response("profile", 200, uid, 0, <<>>)
    /\ UNCHANGED <<documents, tokens, nextDocId, clock>>

\* DELETE /api/auth/profile
DeleteAccount(token) ==
    /\ LET uid == authenticate(token) IN
       IF uid = 0
       THEN /\ resp' = Response("deleteAccount", 401, 0, 0, <<>>)
            /\ UNCHANGED users
       ELSE /\ users' = {u \in users : u.id # uid}
            /\ resp' = Response("deleteAccount", 200, uid, 0, <<>>)
    /\ UNCHANGED <<documents, tokens, nextDocId, clock>>

\* GET /api/my-documents
ListDocuments(token) ==
    /\ LET uid == authenticate(token) IN
       IF uid = 0
       THEN resp' = Response("list", 401, 0, 0, <<>>)
       ELSE \E s \in getDocumentsForUser(uid) :
                resp' = Response("list", 200, uid, 0, s)
    /\ UNCHANGED <<users, documents, tokens, nextDocId, clock>>

\* POST /api/documents
PostDocument(token, p) ==
    /\ nextDocId <= MaxDocs
    /\ LET uid == authenticate(token) IN
       IF uid = 0
       THEN /\ resp' = Response("create", 401, 0, 0, <<>>)
            /\ UNCHANGED <<documents, nextDocId>>
       ELSE IF ~documentSchema(p)
       THEN /\ resp' = Response("create", 400, uid, 0, <<>>)
            /\ UNCHANGED <<documents, nextDocId>>
       ELSE /\ createDocument(uid, p)
            /\ resp' = Response("create", 201, uid, nextDocId, <<>>)
    /\ UNCHANGED <<users, tokens, clock>>

\* DELETE /api/documents/:id
DeleteDocument(token, id) ==
    /\ LET uid == authenticate(token) IN
       IF uid = 0
       THEN /\ resp' = Response("delete", 401, 0, id, <<>>)
            /\ UNCHANGED documents
       ELSE /\ deleteDocumentForUser(uid, id)
            /\ resp' = Response("delete",
                           IF deleteDocumentForUserOk(uid, id) THEN 200 ELSE 404,
                           uid, id, <<>>)
    /\ UNCHANGED <<users, tokens, nextDocId, clock>>

\* POST /upload/pdf: file = "" when no file part was sent; text is what
\* pdfParse returns for the file, parseOk = FALSE when pdfParse throws
UploadPdf(token, file, text, parseOk) ==
    /\ nextDocId <= MaxDocs
    /\ LET uid == authenticate(token) IN
       IF uid = 0
       THEN /\ resp' = Response("upload", 401, 0, 0, <<>>)
            /\ UNCHANGED <<documents, nextDocId>>
       ELSE IF file = ""
       THEN /\ resp' = Response("upload", 400, uid, 0, <<>>)
            /\ UNCHANGED <<documents, nextDocId>>
       ELSE IF ~parseOk
       THEN /\ resp' = Response("upload", 500, uid, 0, <<>>)
            /\ UNCHANGED <<documents, nextDocId>>
       ELSE /\ createDocument(uid,
                   [title |-> <<file>>, content |-> clamp(Trim(text)),
                    type |-> "pdf", sourceTag |-> "upload",
                    fileName |-> file, fileUrl |-> ""])
            /\ resp' = Response("upload", 200, uid, nextDocId, <<>>)
    /\ UNCHANGED <<users, tokens, clock>>

\* time passes
Tick(d) ==
    /\ clock + d <= MaxClock
    /\ (clock + d) % MsPerSecond <= MaxMs
    /\ clock' = clock + d
    /\ resp' = Response("none", 0, 0, 0, <<>>)
    /\ UNCHANGED <<users, documents, tokens, nextDocId>>

(* ====================== capture screens (client) ====================== *)
VARIABLES
    screen,            \* "pdf" (PDFUploadScreen), "url" (UrlImportScreen),
                       \* "docs" (DocumentsScreen)
    mounted,           \* the screen is on the navigation stack
    backs,             \* number of router.back() calls made by the screen
    authToken,         \* what getAuthToken() finds in AsyncStorage
    alert,             \* the Alert.alert shown last, "" before the first
    selectedFile,      \* pdf: useState(null); 0 is null, else the picked file
    pdfBase64,         \* pdf: useState(null); 0 is null, else the file read
    extractedText,     \* pdf: extractedText, url: extracted
    loading,
    easyRead,
    isTranslating,
    easyModalVisible,
    easyHasSaved,
    leaveGuardVisible,
    picker,            \* pdf: where the pickDocument call is
    pdfMsg,            \* pdf: file whose extraction runs in the WebView, 0 none
    trans,             \* rewriteEasyRead calls in flight
    saves,             \* saveEasyReadDocument calls, in call order
    retryCount,        \* url
    documentTitle,     \* url
    initTimers,        \* url: pending setTimeout(runExtraction, 2500)
    retryTimers,       \* url: pending setTimeout(retry, 1000)
    urlMsgs,           \* url: WebView messages posted and not yet handled
    \* DocumentsScreen
    visibleDocs,       \* useState([]): the documents state, the list shown
    deleteTarget,      \* useState(null): <<>> is null, else <<doc>>
    previewDoc,        \* useState(null)
    fullDoc,           \* useState(null)
    dcalls,            \* loadDocuments / performDelete / openPdfFromDoc calls
    pushes,            \* router.push to /pdf-viewer made last: <<params>>
    \* one call of rewriteEasyRead, from the fetch to what the caller gets
    rw,
    \* AuthProvider (useAuth)
    sessionToken,      \* useState(null) token: NoToken is null
    sessionUser,       \* useState(null) user: 0 is null, else the user's id
    storedUser,        \* AsyncStorage "easyread.user": 0 when absent
    authCalls,         \* register / login / logout calls of the provider
    \* history variables, not program state
    easyId,            \* which rewrite result easyRead holds, 0 none
    nextRid,           \* number of rewrite results received + 1
    created,           \* documents stored by this screen: [doc, rid, save]
    guardChoice,       \* the guard option pressed last, "none" before
    emptyRejected,     \* a save call returned at the empty-text check
    triggers,          \* url: Extract / Force Extract presses so far
    autoScheduled,     \* url: retries scheduled so far
    requests,          \* Store requests this device has sent: [op, token]
    lastMsg            \* url: the text onMessage handled last, whether the
                       \* handler threw, and whether every text so far was
                       \* shorter than ShortLimit

uiVars == <<selectedFile, pdfBase64, extractedText, loading, easyRead,
            isTranslating, easyModalVisible, easyHasSaved, leaveGuardVisible>>
pdfVars == <<picker, pdfMsg>>
urlVars == <<retryCount, documentTitle, initTimers, retryTimers, urlMsgs,
             triggers, autoScheduled, lastMsg>>
asyncVars == <<trans, saves>>
docsVars == <<visibleDocs, deleteTarget, previewDoc, fullDoc, dcalls, pushes>>
histVars == <<easyId, nextRid, created, guardChoice, emptyRejected>>
captureVars == <<screen, mounted, backs, uiVars, pdfVars, urlVars, asyncVars,
                 histVars>>
auxVars == <<rw, sessionToken, sessionUser, storedUser, authCalls>>
clientVars == <<captureVars, docsVars, auxVars, requests, authToken, alert>>
vars == <<serverVars, clientVars>>

(* ---- bounds of the capture specifications ---- *)
MaxFiles == 2
MaxTranslate == 1
MaxSaves == 2
MaxTriggers == 2
MaxCalls == 1
MaxRewrites == 2
MaxAuthCalls == 1

(* ---- program constants ---- *)
ShortLimit == 100
MaxRetries == 2

Files == 1..MaxFiles
FileChars == <<"a", "b", "c", "d">>
\* the text pdf.js extracts from file f (fullText.trim()), and f's name
FileText(f) == Trim(<<FileChars[f], " ">>)
FileName(f) == <<"f", FileChars[f]>>
PdfFallbackTitle == <<"P", "D", "F">>
UrlFallbackTitle == <<"U", "R", "L">>
HostName == <<"h">>

Truthy(s) == s # <<>>
\* the rewrite results a Document has been stored for
StoredRids == {c.rid : c \in created}
hasEasyRead == Trim(easyRead) # <<>>
saveDisabled == Trim(easyRead) = <<>> \/ easyHasSaved

\* which part of the screen takes touches
Interactive == mounted /\ picker # "picking"
MainUI == Interactive /\ ~easyModalVisible /\ ~leaveGuardVisible
EasyUI == Interactive /\ easyModalVisible
GuardUI == Interactive /\ leaveGuardVisible

\* the WebView of the pdf screen is rendered while loading && pdfBase64
PdfWebView(l, b) == IF l /\ b # 0 THEN b ELSE 0

\* router.back(): the screen is popped.  Its state, WebView and timers go
\* with it, and a rewrite that resolves later sets nothing; saves in flight
\* run on.
routerBack ==
    /\ mounted' = FALSE
    /\ backs' = backs + 1
    /\ selectedFile' = 0
    /\ pdfBase64' = 0
    /\ extractedText' = <<>>
    /\ loading' = FALSE
    /\ easyRead' = <<>>
    /\ isTranslating' = FALSE
    /\ easyModalVisible' = FALSE
    /\ easyHasSaved' = FALSE
    /\ leaveGuardVisible' = FALSE
    /\ picker' = "idle"
    /\ pdfMsg' = 0
    /\ retryCount' = 0
    /\ documentTitle' = <<>>
    /\ initTimers' = 0
    /\ retryTimers' = 0
    /\ urlMsgs' = 0
    /\ trans' = <<>>

(* ---- lib/api.js ---- *)
\* createUserDocument: the request body built from the caller's argument
createUserDocument(a) ==
    [title |-> a.title, content |-> a.content, type |-> a.type,
     sourceTag |-> a.sourceTag, fileName |-> a.fileName,
     fileUrl |-> IF "fileUrl" \in DOMAIN a THEN a.fileUrl ELSE ""]

\* POST /ai/rewrite then rewriteEasyRead: data.easyRead || ""
rewriteEasyRead(content) == Trim(content)

(* ---- handlers shared by the two screens ---- *)
\* variant: the back button leaves without testing for an unsaved result
handleBack_noGuard ==
    /\ MainUI
    /\ routerBack
    /\ UNCHANGED <<serverVars, screen, docsVars, requests, authToken, alert, triggers,
                   autoScheduled, lastMsg, saves, histVars>>
    /\ UNCHANGED auxVars

\* handleBack
handleBack ==
    /\ MainUI
    /\ IF Truthy(easyRead) /\ ~easyHasSaved
       THEN /\ leaveGuardVisible' = TRUE
            /\ UNCHANGED <<mounted, backs, selectedFile, pdfBase64,
                           extractedText, loading, easyRead, isTranslating,
                           easyModalVisible, easyHasSaved, pdfVars, retryCount,
                           documentTitle, initTimers, retryTimers, urlMsgs,
                           trans>>
       ELSE routerBack
    /\ UNCHANGED <<serverVars, screen, docsVars, requests, authToken, alert, triggers,
                   autoScheduled, lastMsg, saves, histVars>>
    /\ UNCHANGED auxVars

\* the chip "Open Easy Read" / "Easy Read it": opens the modal when a result
\* is held, else handleTranslate up to its await
TranslateChip ==
    /\ MainUI
    /\ Truthy(extractedText)
    /\ ~(isTranslating \/ (~hasEasyRead /\ Trim(extractedText) = <<>>))
    /\ IF hasEasyRead
       THEN /\ easyModalVisible' = TRUE
            /\ UNCHANGED <<isTranslating, trans>>
       ELSE /\ Len(trans) + nextRid <= MaxTranslate
            /\ isTranslating' = TRUE
            /\ trans' = Append(trans, extractedText)
            /\ UNCHANGED easyModalVisible
    /\ UNCHANGED <<serverVars, screen, docsVars, requests, mounted, backs, authToken, alert,
                   selectedFile, pdfBase64, extractedText, loading, easyRead, easyHasSaved,
                   leaveGuardVisible, pdfVars, urlVars, saves, histVars>>
    /\ UNCHANGED auxVars

\* variant: the catch also clears the extracted text
TranslateDone_clearsText(ok, content) ==
    /\ trans # <<>>
    /\ trans' = Tail(trans)
    /\ isTranslating' = FALSE
    /\ IF ok
       THEN /\ easyRead' = rewriteEasyRead(content)
            /\ easyHasSaved' = FALSE
            /\ easyModalVisible' = TRUE
            /\ easyId' = nextRid
            /\ nextRid' = nextRid + 1
            /\ UNCHANGED extractedText
       ELSE /\ extractedText' = <<>>
            /\ UNCHANGED <<easyRead, easyHasSaved, easyModalVisible, easyId,
                           nextRid>>
    /\ alert' = IF ok THEN alert ELSE "Failed to generate Easy Read text"
    /\ UNCHANGED <<serverVars, screen, docsVars, requests, mounted, backs, authToken, selectedFile,
                   pdfBase64, loading, leaveGuardVisible, pdfVars, urlVars,
                   saves, created, guardChoice, emptyRejected>>
    /\ UNCHANGED auxVars

\* handleTranslate after the await: the call resolves with the service's text
\* or throws
TranslateDone(ok, content) ==
    /\ trans # <<>>
    /\ trans' = Tail(trans)
    /\ isTranslating' = FALSE
    /\ IF ok
       THEN /\ easyRead' = rewriteEasyRead(content)
            /\ easyHasSaved' = FALSE
            /\ easyModalVisible' = TRUE
            /\ easyId' = nextRid
            /\ nextRid' = nextRid + 1
       ELSE UNCHANGED <<easyRead, easyHasSaved, easyModalVisible, easyId,
                        nextRid>>
    /\ alert' = IF ok THEN alert ELSE "Failed to generate Easy Read text"
    /\ UNCHANGED <<serverVars, screen, docsVars, requests, mounted, backs, authToken, selectedFile,
                   pdfBase64, extractedText, loading, leaveGuardVisible,
                   pdfVars, urlVars, saves, created, guardChoice,
                   emptyRejected>>
    /\ UNCHANGED auxVars

\* variant: the test `if (!text) return` is missing
saveEasyReadDocument_noEmptyTest(leaveAfter) ==
    /\ Len(saves) < MaxSaves
    /\ saves' = Append(saves,
           [pc |-> "render", text |-> Trim(easyRead),
            title |-> IF selectedFile # 0 THEN FileName(selectedFile)
                      ELSE PdfFallbackTitle,
            leaveAfter |-> leaveAfter, rid |-> easyId,
            afterSaved |-> easyHasSaved /\ easyId \in StoredRids,
            status |-> 0])
    /\ UNCHANGED emptyRejected

\* variant: with no simplified result the extracted text is saved
saveEasyReadDocument_rawFallback(leaveAfter) ==
    LET text == IF Trim(easyRead) # <<>> THEN Trim(easyRead)
                ELSE Trim(extractedText)
    IN IF text = <<>>
       THEN /\ emptyRejected' = TRUE
            /\ UNCHANGED saves
       ELSE /\ Len(saves) < MaxSaves
            /\ saves' = Append(saves,
                   [pc |-> "render", text |-> text,
                    title |-> IF selectedFile # 0 THEN FileName(selectedFile)
                              ELSE PdfFallbackTitle,
                    leaveAfter |-> leaveAfter, rid |-> easyId,
                    afterSaved |-> easyHasSaved /\ easyId \in StoredRids,
                    status |-> 0])
            /\ UNCHANGED emptyRejected

\* saveEasyReadDocument(leaveAfter) up to its first await
saveEasyReadDocument(leaveAfter) ==
    LET text == Trim(easyRead)
        title == IF screen = "pdf"
                 THEN (IF selectedFile # 0 THEN FileName(selectedFile)
                       ELSE PdfFallbackTitle)
                 ELSE (IF Truthy(documentTitle) THEN documentTitle
                       ELSE UrlFallbackTitle)
    IN IF text = <<>>
       THEN /\ emptyRejected' = TRUE
            /\ UNCHANGED saves
       ELSE /\ Len(saves) < MaxSaves
            /\ saves' = Append(saves,
                   [pc |-> "render", text |-> text, title |-> title,
                    leaveAfter |-> leaveAfter, rid |-> easyId,
                    afterSaved |-> easyHasSaved /\ easyId \in StoredRids,
                    status |-> 0])
            /\ UNCHANGED emptyRejected

\* modal buttons
EasyDelete ==
    /\ EasyUI
    /\ easyRead' = <<>>
    /\ easyHasSaved' = FALSE
    /\ easyModalVisible' = FALSE
    /\ easyId' = 0
    /\ UNCHANGED <<serverVars, screen, docsVars, requests, mounted, backs, authToken, alert,
                   selectedFile, pdfBase64, extractedText, loading, isTranslating,
                   leaveGuardVisible, pdfVars, urlVars, asyncVars, nextRid,
                   created, guardChoice, emptyRejected>>
    /\ UNCHANGED auxVars

\* Close, and the modal's onRequestClose
EasyClose ==
    /\ EasyUI
    /\ easyModalVisible' = FALSE
    /\ UNCHANGED <<serverVars, screen, docsVars, requests, mounted, backs, authToken, alert,
                   selectedFile, pdfBase64, extractedText, loading, easyRead, isTranslating,
                   easyHasSaved, leaveGuardVisible, pdfVars, urlVars,
                   asyncVars, histVars>>
    /\ UNCHANGED auxVars

\* Save: disabled={saveDisabled}, and onPress tests saveDisabled again
EasySave ==
    /\ EasyUI
    /\ ~saveDisabled
    /\ saveEasyReadDocument(FALSE)
    /\ UNCHANGED <<serverVars, screen, docsVars, requests, mounted, backs, authToken, alert,
                   uiVars, pdfVars, urlVars, trans, easyId, nextRid, created,
                   guardChoice>>
    /\ UNCHANGED auxVars

\* guard buttons
LeaveWithoutSaving ==
    /\ GuardUI
    /\ guardChoice' = "leave"
    /\ routerBack
    /\ UNCHANGED <<serverVars, screen, docsVars, requests, authToken, alert, triggers,
                   autoScheduled, lastMsg, saves, easyId, nextRid, created,
                   emptyRejected>>
    /\ UNCHANGED auxVars

SaveAndLeave ==
    /\ GuardUI
    /\ guardChoice' = "save"
    /\ saveEasyReadDocument(TRUE)
    /\ UNCHANGED <<serverVars, screen, docsVars, requests, mounted, backs, authToken, alert,
                   uiVars, pdfVars, urlVars, trans, easyId, nextRid, created>>
    /\ UNCHANGED auxVars

\* the guard's onRequestClose
GuardRequestClose ==
    /\ GuardUI
    /\ leaveGuardVisible' = FALSE
    /\ UNCHANGED <<serverVars, screen, docsVars, requests, mounted, backs, authToken, alert,
                   selectedFile, pdfBase64, extractedText, loading, easyRead, isTranslating,
                   easyModalVisible, easyHasSaved, pdfVars, urlVars, asyncVars,
                   histVars>>
    /\ UNCHANGED auxVars

(* ---- saveEasyReadDocument after its awaits ---- *)
SetSave(i, r) == saves' = [saves EXCEPT ![i] = r]

\* printToFileAsync, readAsStringAsync, writeAsStringAsync, getAuthToken
SaveRender(i, ok) ==
    /\ i \in 1..Len(saves)
    /\ saves[i].pc = "render"
    /\ SetSave(i, [saves[i] EXCEPT !.pc =
            IF ~ok THEN "failed"
            ELSE IF authToken = NoToken THEN "notSignedIn"
            ELSE "post"])
    /\ alert' = IF ~ok THEN "Failed to save"
                ELSE IF authToken = NoToken THEN "Not signed in"
                ELSE alert
    /\ UNCHANGED <<serverVars, screen, docsVars, requests, mounted, backs, authToken, uiVars,
                   pdfVars, urlVars, trans, histVars>>
    /\ UNCHANGED auxVars

SaveArgs(i) ==
    [title |-> saves[i].title, content |-> saves[i].text,
     type |-> IF screen = "pdf" THEN "pdf" ELSE "web",
     sourceTag |-> IF screen = "pdf" THEN "upload" ELSE "url",
     fileName |-> IF screen = "pdf" THEN "easy-read-upload.pdf"
                  ELSE "easy-read-url.pdf",
     url |-> IF screen = "pdf" THEN "cache/easy-read-upload.pdf"
             ELSE "documents/easy-read-url.pdf"]

\* the request reaches POST /api/documents, or fetch fails (reached = FALSE)
SavePost(i, reached) ==
    /\ i \in 1..Len(saves)
    /\ saves[i].pc = "post"
    /\ IF reached
       THEN /\ PostDocument(authToken, createUserDocument(SaveArgs(i)))
            /\ SetSave(i, [saves[i] EXCEPT !.pc = "resp",
                                           !.status = resp'.status])
            /\ created' = IF resp'.status = 201
                          THEN created \cup {[doc |-> resp'.doc,
                                              rid |-> saves[i].rid,
                                              save |-> i]}
                          ELSE created
       ELSE /\ SetSave(i, [saves[i] EXCEPT !.pc = "resp", !.status = 0])
            /\ UNCHANGED <<serverVars, created>>
    /\ requests' = requests \cup {[op |-> "create", token |-> authToken]}
    /\ UNCHANGED <<screen, docsVars, mounted, backs, authToken, alert, uiVars, pdfVars,
                   urlVars, trans, easyId, nextRid, guardChoice, emptyRejected>>
    /\ UNCHANGED auxVars

\* variant: setEasyHasSaved(true) also runs when the request failed
SaveFinish_savedAnyway(i) ==
    /\ i \in 1..Len(saves)
    /\ saves[i].pc = "resp"
    /\ SetSave(i, [saves[i] EXCEPT !.pc =
            IF saves[i].status = 201 THEN "done" ELSE "failed"])
    /\ IF saves[i].status = 201 /\ saves[i].leaveAfter
       THEN routerBack
       ELSE /\ easyHasSaved' = mounted
            /\ UNCHANGED <<mounted, backs, selectedFile, pdfBase64,
                           extractedText, loading, easyRead, isTranslating,
                           easyModalVisible, leaveGuardVisible, pdfVars,
                           retryCount, documentTitle, initTimers, retryTimers,
                           urlMsgs, trans>>
    /\ alert' = IF saves[i].status = 201 THEN alert ELSE "Failed to save"
    /\ UNCHANGED <<serverVars, screen, docsVars, requests, authToken, triggers, autoScheduled,
                   lastMsg, histVars>>
    /\ UNCHANGED auxVars

\* variant: for leaveAfter, router.back() also runs when the request failed
SaveFinish_leavesAnyway(i) ==
    /\ i \in 1..Len(saves)
    /\ saves[i].pc = "resp"
    /\ SetSave(i, [saves[i] EXCEPT !.pc =
            IF saves[i].status = 201 THEN "done" ELSE "failed"])
    /\ IF saves[i].leaveAfter
       THEN routerBack
       ELSE /\ easyHasSaved' = (IF saves[i].status = 201 THEN mounted
                                ELSE easyHasSaved)
            /\ UNCHANGED <<mounted, backs, selectedFile, pdfBase64,
                           extractedText, loading, easyRead, isTranslating,
                           easyModalVisible, leaveGuardVisible, pdfVars,
                           retryCount, documentTitle, initTimers, retryTimers,
                           urlMsgs, trans>>
    /\ alert' = IF saves[i].status = 201 THEN alert ELSE "Failed to save"
    /\ UNCHANGED <<serverVars, screen, docsVars, requests, authToken, triggers, autoScheduled,
                   lastMsg, histVars>>
    /\ UNCHANGED auxVars

\* the response: setEasyHasSaved(true) and, for leaveAfter, router.back();
\* a non-2xx response or a failed fetch throws into the catch
SaveFinish(i) ==
    /\ i \in 1..Len(saves)
    /\ saves[i].pc = "resp"
    /\ IF saves[i].status = 201
       THEN /\ SetSave(i, [saves[i] EXCEPT !.pc = "done"])
            /\ IF saves[i].leaveAfter
               THEN routerBack
               ELSE /\ easyHasSaved' = mounted
                    /\ UNCHANGED <<mounted, backs, selectedFile, pdfBase64,
                                   extractedText, loading, easyRead,
                                   isTranslating, easyModalVisible,
                                   leaveGuardVisible, pdfVars, retryCount,
                                   documentTitle, initTimers, retryTimers,
                                   urlMsgs, trans>>
       ELSE /\ SetSave(i, [saves[i] EXCEPT !.pc = "failed"])
            /\ UNCHANGED <<mounted, backs, uiVars, pdfVars, retryCount,
                           documentTitle, initTimers, retryTimers, urlMsgs,
                           trans>>
    /\ alert' = IF saves[i].status = 201 THEN alert ELSE "Failed to save"
    /\ UNCHANGED <<serverVars, screen, docsVars, requests, authToken, triggers, autoScheduled,
                   lastMsg, histVars>>
    /\ UNCHANGED auxVars

(* ---- PDFUploadScreen ---- *)
\* pickDocument up to await DocumentPicker.getDocumentAsync
PickStart ==
    /\ screen = "pdf"
    /\ MainUI
    /\ picker = "idle"
    /\ loading' = TRUE
    /\ picker' = "picking"
    /\ pdfMsg' = IF pdfMsg # 0 THEN pdfMsg ELSE PdfWebView(TRUE, pdfBase64)
    /\ UNCHANGED <<serverVars, screen, docsVars, requests, mounted, backs, authToken, alert,
                   selectedFile, pdfBase64, extractedText, easyRead, isTranslating,
                   easyModalVisible, easyHasSaved, leaveGuardVisible, urlVars,
                   asyncVars, histVars>>
    /\ UNCHANGED auxVars

\* the picker returns: "canceled", "throws", "tooLarge", or a file
PickResult(outcome, f) ==
    /\ picker = "picking"
    /\ IF outcome = "file"
       THEN /\ selectedFile' = f
            /\ extractedText' = <<>>
            /\ easyRead' = <<>>
            /\ easyHasSaved' = FALSE
            /\ easyModalVisible' = FALSE
            /\ leaveGuardVisible' = FALSE
            /\ easyId' = 0
            /\ picker' = "reading"
            /\ UNCHANGED <<loading, pdfMsg>>
       ELSE /\ loading' = FALSE
            /\ picker' = "idle"
            /\ pdfMsg' = 0
            /\ UNCHANGED <<selectedFile, extractedText, easyRead, easyHasSaved,
                           easyModalVisible, leaveGuardVisible, easyId>>
    /\ alert' = IF outcome = "throws" THEN "Permission Error"
                ELSE IF outcome = "tooLarge" THEN "File Too Large"
                ELSE alert
    /\ UNCHANGED <<serverVars, screen, docsVars, requests, mounted, backs, authToken, pdfBase64,
                   isTranslating, urlVars, asyncVars, nextRid, created,
                   guardChoice, emptyRejected>>
    /\ UNCHANGED auxVars

\* await FS.readAsStringAsync(file.uri) returns or throws, then the finally
PickRead(ok) ==
    /\ picker = "reading"
    /\ pdfBase64' = IF ok /\ mounted THEN selectedFile ELSE pdfBase64
    /\ loading' = FALSE
    /\ picker' = "idle"
    /\ pdfMsg' = 0
    /\ alert' = IF ok THEN alert ELSE "Failed to read PDF file"
    /\ UNCHANGED <<serverVars, screen, docsVars, requests, mounted, backs, authToken, selectedFile,
                   extractedText, easyRead, isTranslating, easyModalVisible,
                   easyHasSaved, leaveGuardVisible, urlVars, asyncVars,
                   histVars>>
    /\ UNCHANGED auxVars

\* the button "Extract Text from PDF", rendered while
\* selectedFile && !extractedText, disabled={loading}
extractTextFromPDF ==
    /\ screen = "pdf"
    /\ MainUI
    /\ selectedFile # 0 /\ ~Truthy(extractedText)
    /\ ~loading
    /\ IF pdfBase64 = 0
       THEN /\ alert' = "No PDF"
            /\ UNCHANGED <<loading, pdfMsg>>
       ELSE /\ loading' = TRUE
            /\ pdfMsg' = pdfBase64
            /\ UNCHANGED alert
    /\ UNCHANGED <<serverVars, screen, docsVars, requests, mounted, backs, authToken, selectedFile,
                   pdfBase64, extractedText, easyRead, isTranslating,
                   easyModalVisible, easyHasSaved, leaveGuardVisible, picker,
                   urlVars, asyncVars, histVars>>
    /\ UNCHANGED auxVars

\* variant: setLoading(false) runs only for {ok: true}
onPDFMessage_keepsLoading(ok) ==
    /\ pdfMsg # 0
    /\ loading' = (IF ok THEN FALSE ELSE loading)
    /\ pdfMsg' = 0
    /\ IF ok
       THEN /\ extractedText' = FileText(pdfMsg)
            /\ easyRead' = <<>>
            /\ easyHasSaved' = FALSE
            /\ easyId' = 0
       ELSE UNCHANGED <<extractedText, easyRead, easyHasSaved, easyId>>
    /\ alert' = IF ok THEN alert ELSE "Extraction Error"
    /\ UNCHANGED <<serverVars, screen, docsVars, requests, mounted, backs, authToken, selectedFile,
                   pdfBase64, isTranslating, easyModalVisible,
                   leaveGuardVisible, picker, urlVars, asyncVars, nextRid,
                   created, guardChoice, emptyRejected>>
    /\ UNCHANGED auxVars

\* onPDFMessage: the page posts {ok: true, text} or {ok: false, error}
onPDFMessage(ok) ==
    /\ pdfMsg # 0
    /\ loading' = FALSE
    /\ pdfMsg' = 0
    /\ IF ok
       THEN /\ extractedText' = FileText(pdfMsg)
            /\ easyRead' = <<>>
            /\ easyHasSaved' = FALSE
            /\ easyId' = 0
       ELSE UNCHANGED <<extractedText, easyRead, easyHasSaved, easyId>>
    /\ alert' = IF ok THEN alert ELSE "Extraction Error"
    /\ UNCHANGED <<serverVars, screen, docsVars, requests, mounted, backs, authToken, selectedFile,
                   pdfBase64, isTranslating, easyModalVisible,
                   leaveGuardVisible, picker, urlVars, asyncVars, nextRid,
                   created, guardChoice, emptyRejected>>
    /\ UNCHANGED auxVars

(* ---- UrlImportScreen ---- *)
\* runExtraction: webRef.current is set while the screen is mounted
runExtraction(n) == IF mounted THEN n + 1 ELSE n

\* the Extract button, disabled={loading}
ExtractPress ==
    /\ screen = "url"
    /\ MainUI
    /\ ~loading
    /\ triggers < MaxTriggers
    /\ triggers' = triggers + 1
    /\ loading' = TRUE
    /\ extractedText' = <<>>
    /\ documentTitle' = <<>>
    /\ retryCount' = 0
    /\ easyRead' = <<>>
    /\ easyHasSaved' = FALSE
    /\ easyModalVisible' = FALSE
    /\ leaveGuardVisible' = FALSE
    /\ easyId' = 0
    /\ initTimers' = initTimers + 1
    /\ UNCHANGED <<serverVars, screen, docsVars, requests, mounted, backs, authToken, alert,
                   selectedFile, pdfBase64, isTranslating, pdfVars, retryTimers, urlMsgs,
                   autoScheduled, lastMsg, asyncVars, nextRid, created,
                   guardChoice, emptyRejected>>
    /\ UNCHANGED auxVars

\* the Force Extract button
ForceExtractPress ==
    /\ screen = "url"
    /\ MainUI
    /\ triggers < MaxTriggers
    /\ triggers' = triggers + 1
    /\ loading' = TRUE
    /\ urlMsgs' = runExtraction(urlMsgs)
    /\ UNCHANGED <<serverVars, screen, docsVars, requests, mounted, backs, authToken, alert,
                   selectedFile, pdfBase64, extractedText, easyRead, isTranslating,
                   easyModalVisible, easyHasSaved, leaveGuardVisible, pdfVars,
                   retryCount, documentTitle, initTimers, retryTimers,
                   autoScheduled, lastMsg, asyncVars, histVars>>
    /\ UNCHANGED auxVars

\* setTimeout(() => runExtraction(), 2500) fires
InitTimerFires ==
    /\ initTimers > 0
    /\ initTimers' = initTimers - 1
    /\ urlMsgs' = runExtraction(urlMsgs)
    /\ UNCHANGED <<serverVars, screen, docsVars, requests, mounted, backs, authToken, alert,
                   uiVars, pdfVars, retryCount, documentTitle, retryTimers, triggers,
                   autoScheduled, lastMsg, asyncVars, histVars>>
    /\ UNCHANGED auxVars

\* setTimeout(() => { setLoading(true); runExtraction(); }, 1000) fires
RetryTimerFires ==
    /\ retryTimers > 0
    /\ retryTimers' = retryTimers - 1
    /\ loading' = TRUE
    /\ urlMsgs' = runExtraction(urlMsgs)
    /\ UNCHANGED <<serverVars, screen, docsVars, requests, mounted, backs, authToken, alert,
                   selectedFile, pdfBase64, extractedText, easyRead, isTranslating,
                   easyModalVisible, easyHasSaved, leaveGuardVisible, pdfVars,
                   retryCount, documentTitle, initTimers, triggers,
                   autoScheduled, lastMsg, asyncVars, histVars>>
    /\ UNCHANGED auxVars

\* variant: one retry too few
NeedsRetry_offByOne(text, rc) == Len(text) < ShortLimit /\ rc < MaxRetries - 1

\* whether onMessage goes on to schedule a retry
NeedsRetry(text, rc) == Len(text) < ShortLimit /\ rc < MaxRetries

\* onMessage: the page posts {ok: true, text, title}; urlParses tells whether
\* new URL(url) succeeds when the title is empty
onMessage(text, title, urlParses) ==
    /\ urlMsgs > 0
    /\ urlMsgs' = urlMsgs - 1
    /\ loading' = FALSE
    /\ extractedText' = text
    /\ lastMsg' = [text |-> text, threw |-> ~Truthy(title) /\ ~urlParses,
                   allShort |-> lastMsg.allShort /\ Len(text) < ShortLimit]
    /\ IF ~Truthy(title) /\ ~urlParses
       THEN \* new URL(url) throws into the catch
            /\ alert' = "Failed to parse result"
            /\ UNCHANGED <<documentTitle, retryCount, retryTimers,
                           autoScheduled>>
       ELSE /\ UNCHANGED alert
            /\ documentTitle' = IF Truthy(title) THEN title ELSE HostName
            /\ IF NeedsRetry(text, retryCount)
               THEN /\ retryCount' = retryCount + 1
                    /\ retryTimers' = retryTimers + 1
                    /\ autoScheduled' = autoScheduled + 1
               ELSE /\ retryCount' = 0
                    /\ UNCHANGED <<retryTimers, autoScheduled>>
    /\ UNCHANGED <<serverVars, screen, docsVars, requests, mounted, backs, authToken, selectedFile,
                   pdfBase64, easyRead, isTranslating, easyModalVisible,
                   easyHasSaved, leaveGuardVisible, pdfVars, initTimers,
                   triggers, asyncVars, histVars>>
    /\ UNCHANGED auxVars

\* the injected script ends without window.ReactNativeWebView.postMessage:
\* it throws (no document.body yet in the page being loaded), or the page it
\* was injected into is replaced by the reload
scriptPostsNothing ==
    /\ urlMsgs > 0
    /\ urlMsgs' = urlMsgs - 1
    /\ UNCHANGED <<serverVars, screen, docsVars, requests, mounted, backs,
                   authToken, alert, uiVars, pdfVars, retryCount,
                   documentTitle, initTimers, retryTimers, triggers,
                   autoScheduled, lastMsg, asyncVars, histVars>>
    /\ UNCHANGED auxVars

(* ---- the rewrite service: POST /ai/rewrite and rewriteEasyRead ---- *)
\* what the chat completions endpoint does with the request: the fetch throws
\* ("unreachable"), a non-2xx answer with its status and body ("status"), a
\* 2xx answer whose first choice has the content ("json"), a 2xx answer
\* without choices ("nochoices"), a 2xx answer that is not JSON ("notjson")
Upstream(kind, status, detail, content) ==
    [kind |-> kind, status |-> status, detail |-> detail, content |-> content]
Upstreams ==
    {Upstream("unreachable", 0, "", <<>>), Upstream("nochoices", 200, "", <<>>),
     Upstream("notjson", 200, "", <<>>)}
    \cup {Upstream("status", st, d, <<>>) :
              st \in {401, 500}, d \in {"", "quota"}}
    \cup {Upstream("json", 200, "", c) : c \in {<<" ">>, <<"x", " ">>}}

\* an HTTP answer of the backend: error is the text of body.error with the
\* status it quotes, detail is body.detail, easyRead is body.easyRead
Answer(status, error, quoted, detail, easy) ==
    [status |-> status, error |-> error, quoted |-> quoted, detail |-> detail,
     easyRead |-> easy]
NoAnswer == Answer(0, "", 0, "", <<>>)

\* rewriteSchema: sentence is z.string().min(1)
rewriteSchema(sentence) == Len(sentence) >= 1

\* app.post("/ai/rewrite"): the answer for a request body and what the
\* upstream endpoint does
aiRewrite(sentence, up) ==
    IF ~rewriteSchema(sentence)
    THEN Answer(400, "String must contain at least 1 character(s)", 0, "", <<>>)
    ELSE IF up.kind = "unreachable"
    THEN Answer(400, "fetch failed", 0, "", <<>>)
    ELSE IF up.kind = "status"
    THEN Answer(502, "AI service failed", up.status, up.detail, <<>>)
    ELSE IF up.kind = "notjson"
    THEN Answer(400, "Unexpected token", 0, "", <<>>)
    ELSE IF up.kind = "nochoices"
    THEN Answer(200, "", 0, "", <<>>)
    ELSE Answer(200, "", 0, "", Trim(up.content))

\* what a call of rewriteEasyRead gives its caller: the returned text, or
\* the Error thrown with its message, and the status and detail the message
\* quotes (0 and "" when it quotes none)
Returned(text) ==
    [threw |-> FALSE, text |-> text, message |-> "", status |-> 0,
     quoted |-> 0, detail |-> ""]
Thrown(message, status, quoted, detail) ==
    [threw |-> TRUE, text |-> <<>>, message |-> message, status |-> status,
     quoted |-> quoted, detail |-> detail]

\* the try block of rewriteEasyRead: reached = FALSE when fetch rejects
rewriteEasyReadTry(reached, answer) ==
    IF ~reached THEN Thrown("Network request failed", 0, 0, "")
    ELSE IF answer.status # 200
    THEN Thrown("AI rewrite failed", answer.status, answer.quoted,
                answer.detail)
    ELSE Returned(answer.easyRead)

\* the catch of rewriteEasyRead: every error thrown in the try is replaced
rewriteEasyReadCatch(r) ==
    IF r.threw
    THEN Thrown("Failed to reach the AI service. Please try again.", 0, 0, "")
    ELSE r

rewriteEasyReadResult(reached, answer) ==
    rewriteEasyReadCatch(rewriteEasyReadTry(reached, answer))

IdleRewrite ==
    [pc |-> "idle", n |-> 0, sentence |-> <<>>,
     up |-> Upstream("none", 0, "", <<>>),
     reached |-> FALSE, answer |-> NoAnswer, result |-> Returned(<<>>)]

\* rewriteEasyRead(sentence) is called and the request is on its way
rewriteCall(sentence) ==
    /\ rw.pc \in {"idle", "returned"}
    /\ rw.n < MaxRewrites
    /\ rw' = [IdleRewrite EXCEPT !.pc = "sent", !.n = rw.n + 1,
                                 !.sentence = sentence]
    /\ UNCHANGED <<serverVars, captureVars, docsVars, requests, authToken,
                   alert, sessionToken, sessionUser, storedUser,
                   authCalls>>

\* the backend handles the request and answers; the upstream endpoint is
\* called only for a body that passes rewriteSchema
rewriteAnswered(up) ==
    /\ rw.pc = "sent"
    /\ rw' = [rw EXCEPT !.pc = "answered", !.reached = TRUE,
                        !.up = IF rewriteSchema(rw.sentence) THEN up
                               ELSE Upstream("none", 0, "", <<>>),
                        !.answer = aiRewrite(rw.sentence, up)]
    /\ UNCHANGED <<serverVars, captureVars, docsVars, requests, authToken,
                   alert, sessionToken, sessionUser, storedUser,
                   authCalls>>

\* the caller gets the result of the call: after an answer, or when the
\* backend could not be reached; handleTranslate shows its alert on a throw
rewriteReturns ==
    /\ rw.pc \in {"sent", "answered"}
    /\ LET r == rewriteEasyReadResult(rw.pc = "answered", rw.answer)
       IN /\ rw' = [rw EXCEPT !.pc = "returned", !.result = r]
          /\ alert' = IF r.threw THEN "Failed to generate Easy Read text"
                      ELSE alert
    /\ UNCHANGED <<serverVars, captureVars, docsVars, requests, authToken,
                   sessionToken, sessionUser, storedUser, authCalls>>

(* ---- AuthProvider (hooks/useAuth.tsx) ---- *)
\* a call of register, login or logout: pc is where it is, or how it ended
IdleAuthCall ==
    [op |-> "none", pc |-> "idle", name |-> "", email |-> "", password |-> "",
     token |-> NoToken, status |-> 0, user |-> 0]

AuthSettled(c) == c.pc \in {"idle", "done", "failed"}

\* a new call takes the lowest slot whose call has returned
StartAuthCall(c) ==
    LET free == {i \in 1..MaxAuthCalls : AuthSettled(authCalls[i])}
    IN /\ free # {}
       /\ authCalls' = [authCalls EXCEPT
              ![CHOOSE k \in free : \A m \in free : k <= m] = c]

\* register(name, email, password) up to its fetch
authRegister(name, email, password) ==
    /\ StartAuthCall([IdleAuthCall EXCEPT !.op = "register", !.pc = "fetch",
                         !.name = name, !.email = email,
                         !.password = password])
    /\ UNCHANGED <<serverVars, captureVars, docsVars, requests, authToken,
                   alert, rw, sessionToken, sessionUser, storedUser>>

\* login(email, password) up to its fetch
authLogin(email, password) ==
    /\ StartAuthCall([IdleAuthCall EXCEPT !.op = "login", !.pc = "fetch",
                         !.email = email, !.password = password])
    /\ UNCHANGED <<serverVars, captureVars, docsVars, requests, authToken,
                   alert, rw, sessionToken, sessionUser, storedUser>>

\* the fetch of register or login: the route answers, or the fetch throws and
\* the catch returns false
authFetch(i, reached) ==
    /\ i \in 1..MaxAuthCalls
    /\ authCalls[i].op \in {"register", "login"} /\ authCalls[i].pc = "fetch"
    /\ IF reached
       THEN /\ IF authCalls[i].op = "register"
               THEN Register(authCalls[i].name, authCalls[i].email,
                             authCalls[i].password)
               ELSE Login(authCalls[i].email, authCalls[i].password)
            /\ authCalls' = [authCalls EXCEPT ![i] = [authCalls[i] EXCEPT !.pc = "resp",
                                  !.status = resp'.status,
                                  !.user = resp'.user]]
       ELSE /\ authCalls' = [authCalls EXCEPT ![i] = [authCalls[i] EXCEPT !.pc = "failed"]]
            /\ UNCHANGED serverVars
    /\ UNCHANGED <<captureVars, docsVars, requests, authToken, alert, rw,
                   sessionToken, sessionUser, storedUser>>

\* data.success && data.user && data.token: the token and the user are
\* stored and kept in memory; the token of a user is the user's id
authFinish(i) ==
    /\ i \in 1..MaxAuthCalls
    /\ authCalls[i].op \in {"register", "login"} /\ authCalls[i].pc = "resp"
    /\ IF authCalls[i].status \in {200, 201}
       THEN /\ authToken' = authCalls[i].user
            /\ storedUser' = authCalls[i].user
            /\ sessionToken' = authCalls[i].user
            /\ sessionUser' = authCalls[i].user
            /\ authCalls' = [authCalls EXCEPT ![i] = [authCalls[i] EXCEPT !.pc = "done"]]
       ELSE /\ authCalls' = [authCalls EXCEPT ![i] = [authCalls[i] EXCEPT !.pc = "failed"]]
            /\ UNCHANGED <<authToken, storedUser, sessionToken, sessionUser>>
    /\ UNCHANGED <<serverVars, captureVars, docsVars, requests, alert, rw>>

\* logout() up to its fetch; without a token in memory or in storage there is
\* no request and the session is cleared at once
authLogout ==
    /\ LET storedToken == IF sessionToken # NoToken THEN sessionToken
                          ELSE authToken
       IN IF storedToken # NoToken
          THEN /\ StartAuthCall([IdleAuthCall EXCEPT !.op = "logout",
                                    !.pc = "fetch", !.token = storedToken])
               /\ UNCHANGED <<authToken, storedUser, sessionToken,
                              sessionUser>>
          ELSE /\ StartAuthCall([IdleAuthCall EXCEPT !.op = "logout",
                                    !.pc = "done"])
               /\ authToken' = NoToken
               /\ storedUser' = 0
               /\ sessionToken' = NoToken
               /\ sessionUser' = 0
    /\ UNCHANGED <<serverVars, captureVars, docsVars, requests, alert, rw>>

\* the fetch of logout: after any answer the two items are removed and the
\* state is cleared; when the fetch throws, the catch only logs
authLogoutFetch(i, reached) ==
    /\ i \in 1..MaxAuthCalls
    /\ authCalls[i].op = "logout" /\ authCalls[i].pc = "fetch"
    /\ IF reached
       THEN /\ Logout(authCalls[i].token)
            /\ authCalls' = [authCalls EXCEPT ![i] = [authCalls[i] EXCEPT !.pc = "done",
                                  !.status = resp'.status]]
            /\ authToken' = NoToken
            /\ storedUser' = 0
            /\ sessionToken' = NoToken
            /\ sessionUser' = 0
       ELSE /\ authCalls' = [authCalls EXCEPT ![i] = [authCalls[i] EXCEPT !.pc = "failed"]]
            /\ UNCHANGED <<serverVars, authToken, storedUser, sessionToken,
                           sessionUser>>
    /\ UNCHANGED <<captureVars, docsVars, requests, alert, rw>>

(* ---- DocumentsScreen ---- *)
\* loadDocuments: the mapping of an API row to a list item
MapDoc(d) ==
    [id |-> d.id, title |-> d.title, content |-> d.content, type |-> d.type,
     date |-> d.createdAt, fileName |-> d.fileName,
     sourceTag |-> d.sourceTag, fileUrl |-> d.fileUrl]

MapDocs(rows) == [i \in 1..Len(rows) |-> MapDoc(rows[i])]

\* file names that end in ".pdf"
PdfFileNames == {"easy-read-upload.pdf", "easy-read-url.pdf", "f.pdf"}

isPdfDoc(doc) == doc.type = "pdf" \/ doc.fileName \in PdfFileNames

\* an async call of the screen: op is "load", "delete" or "open"; pc is where
\* it is, or how it ended
IdleCall ==
    [op |-> "none", pc |-> "idle", doc |-> <<>>, token |-> NoToken,
     status |-> 0, rows |-> <<>>]

Settled(c) ==
    c.pc \in {"idle", "done", "failed", "notSignedIn", "notAvailable"}

FreeSlots == {i \in 1..MaxCalls : Settled(dcalls[i])}

StartCall(c) ==
    /\ FreeSlots # {}
    /\ LET i == CHOOSE k \in FreeSlots : \A m \in FreeSlots : k <= m
       IN dcalls' = [dcalls EXCEPT ![i] = c]

SetCall(i, c) == dcalls' = [dcalls EXCEPT ![i] = c]

\* the Documents tab is the screen in front
DocsFocused == screen = "docs"
DocsListUI ==
    DocsFocused /\ previewDoc = <<>> /\ fullDoc = <<>> /\ deleteTarget = <<>>

\* useFocusEffect and onRefresh: loadDocuments up to await getAuthToken()
loadDocuments ==
    /\ DocsFocused
    /\ StartCall([IdleCall EXCEPT !.op = "load", !.pc = "token"])
    /\ UNCHANGED <<serverVars, captureVars, requests, authToken, alert,
                   visibleDocs, deleteTarget, previewDoc, fullDoc, pushes>>
    /\ UNCHANGED auxVars

\* getAuthToken() returns: without a token the list is emptied
loadToken(i) ==
    /\ i \in 1..MaxCalls
    /\ dcalls[i].op = "load" /\ dcalls[i].pc = "token"
    /\ IF authToken = NoToken
       THEN /\ visibleDocs' = <<>>
            /\ SetCall(i, [dcalls[i] EXCEPT !.pc = "notSignedIn"])
       ELSE /\ SetCall(i, [dcalls[i] EXCEPT !.pc = "fetch",
                                            !.token = authToken])
            /\ UNCHANGED visibleDocs
    /\ UNCHANGED <<serverVars, captureVars, requests, authToken, alert,
                   deleteTarget, previewDoc, fullDoc, pushes>>
    /\ UNCHANGED auxVars

\* fetchUserDocuments: GET /api/my-documents is answered, or fetch fails
loadFetch(i, reached) ==
    /\ i \in 1..MaxCalls
    /\ dcalls[i].op = "load" /\ dcalls[i].pc = "fetch"
    /\ IF reached
       THEN /\ ListDocuments(dcalls[i].token)
            /\ SetCall(i, [dcalls[i] EXCEPT !.pc = "resp",
                                            !.status = resp'.status,
                                            !.rows = resp'.list])
       ELSE /\ SetCall(i, [dcalls[i] EXCEPT !.pc = "resp", !.status = 0])
            /\ UNCHANGED serverVars
    /\ requests' = requests \cup {[op |-> "list", token |-> dcalls[i].token]}
    /\ UNCHANGED <<captureVars, authToken, alert, visibleDocs, deleteTarget,
                   previewDoc, fullDoc, pushes>>
    /\ UNCHANGED auxVars

\* setDocuments(mapped), or the catch
loadFinish(i) ==
    /\ i \in 1..MaxCalls
    /\ dcalls[i].op = "load" /\ dcalls[i].pc = "resp"
    /\ IF dcalls[i].status = 200
       THEN /\ visibleDocs' = MapDocs(dcalls[i].rows)
            /\ SetCall(i, [dcalls[i] EXCEPT !.pc = "done", !.rows = <<>>])
            /\ UNCHANGED alert
       ELSE /\ alert' = "Failed to load documents"
            /\ SetCall(i, [dcalls[i] EXCEPT !.pc = "failed"])
            /\ UNCHANGED visibleDocs
    /\ UNCHANGED <<serverVars, captureVars, requests, authToken,
                   deleteTarget, previewDoc, fullDoc, pushes>>
    /\ UNCHANGED auxVars

\* the trash icon of list item k: setDeleteTarget(doc)
setDeleteTarget(k) ==
    /\ DocsListUI
    /\ k \in 1..Len(visibleDocs)
    /\ deleteTarget' = <<visibleDocs[k]>>
    /\ UNCHANGED <<serverVars, captureVars, requests, authToken, alert,
                   visibleDocs, previewDoc, fullDoc, dcalls, pushes>>
    /\ UNCHANGED auxVars

\* Cancel in the confirm modal, and its onRequestClose
cancelDelete ==
    /\ DocsFocused
    /\ deleteTarget # <<>>
    /\ deleteTarget' = <<>>
    /\ UNCHANGED <<serverVars, captureVars, requests, authToken, alert,
                   visibleDocs, previewDoc, fullDoc, dcalls, pushes>>
    /\ UNCHANGED auxVars

\* performDelete up to await getAuthToken()
performDelete ==
    /\ DocsFocused
    /\ deleteTarget # <<>>
    /\ StartCall([IdleCall EXCEPT !.op = "delete", !.pc = "token",
                                  !.doc = deleteTarget])
    /\ UNCHANGED <<serverVars, captureVars, requests, authToken, alert,
                   visibleDocs, deleteTarget, previewDoc, fullDoc, pushes>>
    /\ UNCHANGED auxVars

\* variant: the request is made whatever getAuthToken() returned
performDeleteToken_noTokenTest(i) ==
    /\ i \in 1..MaxCalls
    /\ dcalls[i].op = "delete" /\ dcalls[i].pc = "token"
    /\ SetCall(i, [dcalls[i] EXCEPT !.pc = "fetch", !.token = authToken])
    /\ UNCHANGED <<alert, deleteTarget>>
    /\ UNCHANGED <<serverVars, captureVars, requests, authToken, visibleDocs,
                   previewDoc, fullDoc, pushes>>
    /\ UNCHANGED auxVars

\* getAuthToken() returns: without a token the alert, then the finally
performDeleteToken(i) ==
    /\ i \in 1..MaxCalls
    /\ dcalls[i].op = "delete" /\ dcalls[i].pc = "token"
    /\ IF authToken = NoToken
       THEN /\ alert' = "You need to be signed in to delete documents."
            /\ SetCall(i, [dcalls[i] EXCEPT !.pc = "notSignedIn"])
            /\ deleteTarget' = <<>>
       ELSE /\ SetCall(i, [dcalls[i] EXCEPT !.pc = "fetch",
                                            !.token = authToken])
            /\ UNCHANGED <<alert, deleteTarget>>
    /\ UNCHANGED <<serverVars, captureVars, requests, authToken, visibleDocs,
                   previewDoc, fullDoc, pushes>>
    /\ UNCHANGED auxVars

\* deleteUserDocument: DELETE /api/documents/:id is answered, or fetch fails
performDeleteFetch(i, reached) ==
    /\ i \in 1..MaxCalls
    /\ dcalls[i].op = "delete" /\ dcalls[i].pc = "fetch"
    /\ IF reached
       THEN /\ DeleteDocument(dcalls[i].token, dcalls[i].doc[1].id)
            /\ SetCall(i, [dcalls[i] EXCEPT !.pc = "resp",
                                            !.status = resp'.status])
       ELSE /\ SetCall(i, [dcalls[i] EXCEPT !.pc = "resp", !.status = 0])
            /\ UNCHANGED serverVars
    /\ requests' = requests \cup {[op |-> "delete", token |-> dcalls[i].token]}
    /\ UNCHANGED <<captureVars, authToken, alert, visibleDocs, deleteTarget,
                   previewDoc, fullDoc, pushes>>
    /\ UNCHANGED auxVars

\* variant: the item is filtered out in the finally
performDeleteFinish_alwaysFilters(i) ==
    /\ i \in 1..MaxCalls
    /\ dcalls[i].op = "delete" /\ dcalls[i].pc = "resp"
    /\ visibleDocs' = SelectSeq(visibleDocs,
                                LAMBDA d : d.id # dcalls[i].doc[1].id)
    /\ IF dcalls[i].status = 200
       THEN /\ SetCall(i, [dcalls[i] EXCEPT !.pc = "done"])
            /\ UNCHANGED alert
       ELSE /\ alert' = "Delete Failed"
            /\ SetCall(i, [dcalls[i] EXCEPT !.pc = "failed"])
    /\ deleteTarget' = <<>>
    /\ UNCHANGED <<serverVars, captureVars, requests, authToken, previewDoc,
                   fullDoc, pushes>>
    /\ UNCHANGED auxVars

\* setDocuments(prev => prev.filter(...)), or the catch; then the finally
performDeleteFinish(i) ==
    /\ i \in 1..MaxCalls
    /\ dcalls[i].op = "delete" /\ dcalls[i].pc = "resp"
    /\ IF dcalls[i].status = 200
       THEN /\ visibleDocs' = SelectSeq(visibleDocs,
                                  LAMBDA d : d.id # dcalls[i].doc[1].id)
            /\ SetCall(i, [dcalls[i] EXCEPT !.pc = "done"])
            /\ UNCHANGED alert
       ELSE /\ alert' = "Delete Failed"
            /\ SetCall(i, [dcalls[i] EXCEPT !.pc = "failed"])
            /\ UNCHANGED visibleDocs
    /\ deleteTarget' = <<>>
    /\ UNCHANGED <<serverVars, captureVars, requests, authToken, previewDoc,
                   fullDoc, pushes>>
    /\ UNCHANGED auxVars

\* a list item is pressed: openDocument(doc)
openDocument(k) ==
    /\ DocsListUI
    /\ k \in 1..Len(visibleDocs)
    /\ previewDoc' = <<visibleDocs[k]>>
    /\ UNCHANGED <<serverVars, captureVars, requests, authToken, alert,
                   visibleDocs, deleteTarget, fullDoc, dcalls, pushes>>
    /\ UNCHANGED auxVars

\* the preview's close buttons and onRequestClose
closePreview ==
    /\ DocsFocused
    /\ previewDoc # <<>>
    /\ previewDoc' = <<>>
    /\ UNCHANGED <<serverVars, captureVars, requests, authToken, alert,
                   visibleDocs, deleteTarget, fullDoc, dcalls, pushes>>
    /\ UNCHANGED auxVars

\* the full-text modal's close buttons and onRequestClose
closeFull ==
    /\ DocsFocused
    /\ fullDoc # <<>>
    /\ fullDoc' = <<>>
    /\ UNCHANGED <<serverVars, captureVars, requests, authToken, alert,
                   visibleDocs, deleteTarget, previewDoc, dcalls, pushes>>
    /\ UNCHANGED auxVars

\* what the viewer is opened with: the stored file, or the PDF printed anew
PrintedUri == "print/easy-read.pdf"
ViewerParams(url, doc) == <<[url |-> url, title |-> doc.title]>>

\* handleViewFull(previewDoc), with openPdfFromDoc up to its first await;
\* status 1: the stored path is being checked, 2: no usable stored path
handleViewFull ==
    /\ DocsFocused
    /\ previewDoc # <<>>
    /\ previewDoc' = <<>>
    /\ LET doc == previewDoc[1]
           call == [IdleCall EXCEPT !.op = "open", !.doc = previewDoc]
       IN IF ~isPdfDoc(doc)
          THEN /\ fullDoc' = <<doc>>
               /\ UNCHANGED <<dcalls, alert>>
          ELSE /\ UNCHANGED fullDoc
               /\ IF doc.fileUrl # ""
                  THEN /\ StartCall([call EXCEPT !.pc = "info", !.status = 1])
                       /\ UNCHANGED alert
                  ELSE IF doc.content = <<>>
                  THEN /\ StartCall([call EXCEPT !.pc = "notAvailable",
                                                 !.status = 2])
                       /\ alert' = "PDF not available"
                  ELSE /\ StartCall([call EXCEPT !.pc = "print",
                                                 !.status = 2])
                       /\ UNCHANGED alert
    /\ UNCHANGED <<serverVars, captureVars, requests, authToken, visibleDocs,
                   deleteTarget, pushes>>
    /\ UNCHANGED auxVars

\* await FS.getInfoAsync(localPath).catch(() => null): the file is on this
\* device ("exists"), is not ("missing"), or the call throws and info is null
openInfo(i, o) ==
    /\ i \in 1..MaxCalls
    /\ dcalls[i].op = "open" /\ dcalls[i].pc = "info"
    /\ LET doc == dcalls[i].doc[1]
       IN IF o = "exists"
          THEN /\ pushes' = ViewerParams(doc.fileUrl, doc)
               /\ SetCall(i, [dcalls[i] EXCEPT !.pc = "done"])
               /\ UNCHANGED alert
          ELSE IF doc.content = <<>>
          THEN /\ alert' = "PDF not available"
               /\ SetCall(i, [dcalls[i] EXCEPT !.pc = "notAvailable",
                                               !.status = 2])
               /\ UNCHANGED pushes
          ELSE /\ SetCall(i, [dcalls[i] EXCEPT !.pc = "print", !.status = 2])
               /\ UNCHANGED <<alert, pushes>>
    /\ UNCHANGED <<serverVars, captureVars, requests, authToken, visibleDocs,
                   deleteTarget, previewDoc, fullDoc>>
    /\ UNCHANGED auxVars

\* await printToFileAsync({html}) returns or throws, then router.push
openPrint(i, ok) ==
    /\ i \in 1..MaxCalls
    /\ dcalls[i].op = "open" /\ dcalls[i].pc = "print"
    /\ IF ok
       THEN /\ pushes' = ViewerParams(PrintedUri, dcalls[i].doc[1])
            /\ SetCall(i, [dcalls[i] EXCEPT !.pc = "done"])
            /\ UNCHANGED alert
       ELSE /\ alert' = "Open Failed"
            /\ SetCall(i, [dcalls[i] EXCEPT !.pc = "failed"])
            /\ UNCHANGED pushes
    /\ UNCHANGED <<serverVars, captureVars, requests, authToken, visibleDocs,
                   deleteTarget, previewDoc, fullDoc>>
    /\ UNCHANGED auxVars

\* useAuth logout whose request got through: the stored token is removed
logout ==
    /\ authToken # NoToken
    /\ authToken' = NoToken
    /\ UNCHANGED <<serverVars, captureVars, docsVars, requests, alert>>
    /\ UNCHANGED auxVars

(* ---- specifications ---- *)
RewriteOutputs == {<<>>, <<"x", " ">>}
UrlTexts == {<<>>, Rep("s", ShortLimit - 1), Rep("l", ShortLimit)}
UrlTitles == {<<>>, <<"T">>}

ClientInit(s) ==
    /\ screen = s
    /\ mounted = TRUE
    /\ backs = 0
    /\ selectedFile = 0
    /\ pdfBase64 = 0
    /\ extractedText = <<>>
    /\ loading = FALSE
    /\ easyRead = <<>>
    /\ isTranslating = FALSE
    /\ easyModalVisible = FALSE
    /\ easyHasSaved = FALSE
    /\ leaveGuardVisible = FALSE
    /\ alert = ""
    /\ rw = IdleRewrite
    /\ sessionToken = NoToken
    /\ sessionUser = 0
    /\ storedUser = 0
    /\ authCalls = [i \in 1..MaxAuthCalls |-> IdleAuthCall]
    /\ visibleDocs = <<>>
    /\ deleteTarget = <<>>
    /\ previewDoc = <<>>
    /\ fullDoc = <<>>
    /\ dcalls = [i \in 1..MaxCalls |-> IdleCall]
    /\ pushes = <<>>
    /\ requests = {}
    /\ picker = "idle"
    /\ pdfMsg = 0
    /\ trans = <<>>
    /\ saves = <<>>
    /\ retryCount = 0
    /\ documentTitle = <<>>
    /\ initTimers = 0
    /\ retryTimers = 0
    /\ urlMsgs = 0
    /\ easyId = 0
    /\ nextRid = 1
    /\ created = {}
    /\ guardChoice = "none"
    /\ emptyRejected = FALSE
    /\ triggers = 0
    /\ autoScheduled = 0
    /\ lastMsg = [text |-> <<>>, threw |-> FALSE, allShort |-> TRUE]

\* one account exists; the device holds its token, or none
AccountInit ==
    /\ users = {[id |-> 1, name |-> "Ann", email |-> "a@x"]}
    /\ documents = {}
    /\ tokens = {1}
    /\ nextDocId = 1
    /\ clock = 2
    /\ resp = Response("none", 0, 0, 0, <<>>)
    /\ authToken \in {NoToken, 1}

\* simplify, the Easy Read modal and the leave guard
GuardNext ==
    \/ handleBack
    \/ TranslateChip
    \/ \E ok \in BOOLEAN, c \in RewriteOutputs : TranslateDone(ok, c)
    \/ EasyDelete
    \/ EasyClose
    \/ LeaveWithoutSaving
    \/ GuardRequestClose

\* saveEasyReadDocument from its two buttons to its end
SaveNext ==
    \/ EasySave
    \/ SaveAndLeave
    \/ \E i \in 1..MaxSaves, ok \in BOOLEAN : SaveRender(i, ok)
    \/ \E i \in 1..MaxSaves, reached \in BOOLEAN : SavePost(i, reached)
    \/ \E i \in 1..MaxSaves : SaveFinish(i)

PdfNext ==
    \/ PickStart
    \/ \E o \in {"canceled", "throws", "tooLarge", "file"}, f \in Files :
           PickResult(o, f)
    \/ \E ok \in BOOLEAN : PickRead(ok)
    \/ extractTextFromPDF
    \/ \E ok \in BOOLEAN : onPDFMessage(ok)
    \/ GuardNext
    \/ SaveNext

\* the extraction side of the url screen; saving is the code of Spec
UrlNext ==
    \/ ExtractPress
    \/ ForceExtractPress
    \/ InitTimerFires
    \/ RetryTimerFires
    \/ \E x \in UrlTexts, t \in UrlTitles, p \in BOOLEAN : onMessage(x, t, p)
    \/ GuardNext

PdfInit == ClientInit("pdf") /\ AccountInit
UrlInit == ClientInit("url") /\ AccountInit

Spec == PdfInit /\ [][PdfNext]_vars
SpecUrl == UrlInit /\ [][UrlNext]_vars

(* ---- the store specification: requests from any clients ---- *)
TickSteps == {1, MsPerSecond}
ReqTokens == {NoToken} \cup tokens
ReqContents == {<<>>, <<" ">>, <<"a">>}
ReqTitles == {<<>>, <<"t">>}
ReqPayloads ==
    [title : ReqTitles, content : ReqContents, type : {"", "pdf"},
     sourceTag : {"upload"}, fileName : {""}, fileUrl : {""}]
PdfTexts == {<<>>, <<" ">>, <<" ", "a">>}

ServerInit ==
    /\ users = {}
    /\ documents = {}
    /\ tokens = {}
    /\ nextDocId = 1
    /\ clock = 1
    /\ resp = Response("none", 0, 0, 0, <<>>)

StoreInit == ServerInit /\ ClientInit("none") /\ authToken = NoToken

StoreNext ==
    /\ \/ \E n \in Names, e \in Emails, p \in Passwords : Register(n, e, p)
       \/ \E t \in ReqTokens : DeleteAccount(t)
       \/ \E t \in ReqTokens : ListDocuments(t)
       \/ \E t \in ReqTokens, p \in ReqPayloads : PostDocument(t, p)
       \/ \E t \in ReqTokens, id \in 1..MaxDocs : DeleteDocument(t, id)
       \/ \E t \in ReqTokens, f \in {"", "f.pdf"}, x \in PdfTexts,
             ok \in BOOLEAN : UploadPdf(t, f, x, ok)
       \/ \E d \in TickSteps : Tick(d)
    /\ UNCHANGED clientVars

SpecStore == StoreInit /\ [][StoreNext]_vars

(* ---- the Documents tab, with the account's other sessions ---- *)
StoredFile == "documents/stored.pdf"
DocsPayloads ==
    {[title |-> <<"t">>, content |-> <<"a">>, type |-> "pdf",
      sourceTag |-> "upload", fileName |-> "", fileUrl |-> StoredFile],
     [title |-> <<"t">>, content |-> <<"a">>, type |-> "text",
      sourceTag |-> "upload", fileName |-> "", fileUrl |-> ""]}

\* requests of the same account that do not come from this screen
OtherSession ==
    /\ \/ \E p \in DocsPayloads : PostDocument(1, p)
       \/ \E x \in {<<>>, <<"a">>} : UploadPdf(1, "f.pdf", x, TRUE)
       \/ \E id \in 1..MaxDocs : DeleteDocument(1, id)
    /\ UNCHANGED clientVars

DocsNext ==
    \/ loadDocuments
    \/ \E i \in 1..MaxCalls : loadToken(i)
    \/ \E i \in 1..MaxCalls, reached \in BOOLEAN : loadFetch(i, reached)
    \/ \E i \in 1..MaxCalls : loadFinish(i)
    \/ \E k \in 1..MaxDocs : setDeleteTarget(k)
    \/ cancelDelete
    \/ performDelete
    \/ \E i \in 1..MaxCalls : performDeleteToken(i)
    \/ \E i \in 1..MaxCalls, reached \in BOOLEAN : performDeleteFetch(i, reached)
    \/ \E i \in 1..MaxCalls : performDeleteFinish(i)
    \/ \E k \in 1..MaxDocs : openDocument(k)
    \/ closePreview
    \/ closeFull
    \/ handleViewFull
    \/ \E i \in 1..MaxCalls, o \in {"exists", "missing", "throws"} :
           openInfo(i, o)
    \/ \E i \in 1..MaxCalls, ok \in BOOLEAN : openPrint(i, ok)
    \/ logout
    \/ OtherSession

DocsInit == ClientInit("docs") /\ AccountInit

SpecDocs == DocsInit /\ [][DocsNext]_vars

(* ---- the capture screen or the Documents tab in front ---- *)
AppInit == \E s \in {"pdf", "docs"} : ClientInit(s) /\ AccountInit

AppNext ==
    \/ screen = "pdf" /\ PdfNext
    \/ screen = "docs" /\ DocsNext

SpecApp == AppInit /\ [][AppNext]_vars

(* ---- calls of the rewrite service ---- *)
RewriteNext ==
    \/ \E x \in {<<>>, <<"a">>, <<"a", " ">>} : rewriteCall(x)
    \/ \E up \in Upstreams : rewriteAnswered(up)
    \/ rewriteReturns

RewriteInit == ClientInit("none") /\ AccountInit

SpecRewrite == RewriteInit /\ [][RewriteNext]_vars

(* ---- one account creating and listing documents as time passes ---- *)
ListInit ==
    /\ ClientInit("none")
    /\ users = {[id |-> 1, name |-> "Ann", email |-> "a@x"]}
    /\ documents = {}
    /\ tokens = {1}
    /\ nextDocId = 1
    /\ clock = 0
    /\ resp = Response("none", 0, 0, 0, <<>>)
    /\ authToken = NoToken

ListNext ==
    /\ \/ \E p \in ReqPayloads : PostDocument(1, p)
       \/ \E t \in {NoToken, 1} : ListDocuments(t)
       \/ \E d \in TickSteps : Tick(d)
    /\ UNCHANGED clientVars

SpecList == ListInit /\ [][ListNext]_vars

(* ---- accounts: register, update the profile, delete the account ---- *)
UsersNext ==
    /\ \/ \E n \in Names, e \in Emails, p \in Passwords : Register(n, e, p)
       \/ \E t \in ReqTokens, n \in Names, e \in Emails \cup {""} :
              UpdateProfile(t, n, e)
       \/ \E t \in ReqTokens : DeleteAccount(t)
       \/ \E d \in TickSteps : Tick(d)
    /\ UNCHANGED clientVars

SpecUsers == StoreInit /\ [][UsersNext]_vars

(* ---- the session of one device ---- *)
AuthNext ==
    \/ \E n \in Names, e \in Emails, p \in Passwords : authRegister(n, e, p)
    \/ \E e \in Emails, p \in Passwords : authLogin(e, p)
    \/ \E i \in 1..MaxAuthCalls, reached \in BOOLEAN : authFetch(i, reached)
    \/ \E i \in 1..MaxAuthCalls : authFinish(i)
    \/ authLogout
    \/ \E i \in 1..MaxAuthCalls, reached \in BOOLEAN :
           authLogoutFetch(i, reached)

SpecAuth == StoreInit /\ [][AuthNext]_vars

(* ---- the url screen with timers that fire and scripts that end ---- *)
\* an injected script ends: with a message the screen handles, or without
scriptEnds ==
    \/ \E x \in UrlTexts, t \in UrlTitles, p \in BOOLEAN : onMessage(x, t, p)
    \/ scriptPostsNothing

UrlLiveNext ==
    \/ ExtractPress
    \/ ForceExtractPress
    \/ InitTimerFires
    \/ RetryTimerFires
    \/ scriptEnds
    \/ GuardNext

\* a pending setTimeout fires, and an injected script comes to its end
SpecUrlLive ==
    /\ UrlInit
    /\ [][UrlLiveNext]_vars
    /\ WF_vars(InitTimerFires)
    /\ WF_vars(RetryTimerFires)
    /\ WF_vars(scriptEnds)

(* ============================== claims ================================ *)
ReadyUnsaved == Truthy(easyRead) /\ ~easyHasSaved
DocsOfResult(r) == {c \in created : c.rid = r}

C2_ExactlyOneDocument ==
    \A i \in 1..Len(saves) :
        (saves[i].leaveAfter /\ saves[i].pc = "done")
            => Cardinality(DocsOfResult(saves[i].rid)) = 1

\* C3: after "leave without saving" no Document is stored for the result the
\* screen held.
C3_ZeroDocuments ==
    guardChoice = "leave" => DocsOfResult(easyId) = {}

\* C4: a save action taken when the held result is flagged saved and has a
\* stored Document creates no further Document.
C4_NoDuplicateAfterSaved ==
    \A c \in created : ~saves[c.save].afterSaved

\* C5: a delete by an authenticated user removes the document and answers
\* success exactly when the document exists and is that user's; otherwise it
\* answers 404 and the table is unchanged.
C5_DeleteOnlyOwn ==
    [][(resp' # resp /\ resp'.op = "delete" /\ resp'.status # 401) =>
          LET owned == \E d \in documents :
                           d.id = resp'.doc /\ d.userId = resp'.user
          IN /\ (resp'.status = 200) <=> owned
             /\ resp'.status \in {200, 404}
             /\ owned => /\ documents' \subseteq documents
                         /\ documents \ documents' =
                                {d \in documents : d.id = resp'.doc}
             /\ ~owned => documents' = documents]_vars

C5_ForeignDeleteRefused ==
    /\ resp.op = "delete"
    /\ resp.status = 404
    /\ \E d \in documents : d.id = resp.doc /\ d.userId # resp.user

\* C6: the list a user is sent holds every document of that user and no
\* document of another user.
C6_ListIsOwnersDocuments ==
    (resp.op = "list" /\ resp.status = 200) =>
        /\ {resp.list[i].id : i \in 1..Len(resp.list)} =
               {d.id : d \in {e \in documents : e.userId = resp.user}}
        /\ Len(resp.list) =
               Cardinality({e \in documents : e.userId = resp.user})

C6_ListedBesideForeign ==
    /\ resp.op = "list"
    /\ resp.status = 200
    /\ Len(resp.list) > 0
    /\ \E d \in documents : d.userId # resp.user

\* C7: a save whose trimmed text is empty goes no further than the check:
\* no save in flight and no stored Document has empty or blank text.
C7_EmptySaveRejected ==
    /\ \A i \in 1..Len(saves) : Trim(saves[i].text) # <<>>
    /\ \A d \in documents : Trim(d.content) # <<>>

C7_EmptySaveTried == emptyRejected /\ documents = {}

\* C8: every stored Document has non-empty content.
C8_NonEmptyContent ==
    \A d \in documents : Len(d.content) > 0

\* C9: while every extraction result has been shorter than 100 characters,
\* the automatic retries scheduled never number more than two for each press
\* of Extract or Force Extract.
C9_AtMostTwoRetries ==
    lastMsg.allShort => autoScheduled <= MaxRetries * triggers

\* C10: while a retry is pending the short text is not shown as the
\* extracted text.
C10_ShortTextHeldBack ==
    retryTimers > 0 =>
        ~(Truthy(extractedText) /\ Len(extractedText) < ShortLimit)

\* C10 as amended: a result shorter than 100 characters that arrives with
\* fewer than 2 retries made is set as the extracted text at once, and one
\* retry is scheduled after the delay; when the title is missing and the URL
\* does not parse, the text is still set and no retry is scheduled.
C10_ShortTextShownAndRetried ==
    [][(mounted' /\ urlMsgs' = urlMsgs - 1
          /\ Len(lastMsg'.text) < ShortLimit /\ retryCount < MaxRetries) =>
          /\ extractedText' = lastMsg'.text
          /\ ~loading'
          /\ IF lastMsg'.threw
             THEN retryTimers' = retryTimers /\ retryCount' = retryCount
             ELSE /\ retryTimers' = retryTimers + 1
                  /\ retryCount' = retryCount + 1]_vars

C10_ShortShownWhileRetryPending ==
    /\ retryTimers > 0
    /\ Truthy(extractedText)
    /\ Len(extractedText) < ShortLimit

\* C11: a press of Extract or Force Extract is taken only while no extraction
\* is in flight (the screen is not loading with a message or a first timer
\* outstanding).
C11_TriggersDisabledInFlight ==
    [][triggers' = triggers + 1
         => ~(loading /\ (urlMsgs > 0 \/ initTimers > 0))]_vars

\* C12: at most one saveEasyReadDocument call is between its start and its
\* end at any time.
SavesInFlight == {i \in 1..Len(saves) : saves[i].pc \in {"render", "post", "resp"}}

C12_OneSaveInFlight == Cardinality(SavesInFlight) <= 1

\* C13: the step in which a save ends in failure (render or copy throws, no
\* token, the request fails or is refused) leaves the screen where it was:
\* easyHasSaved and easyRead keep their values and the screen is not left;
\* and a save that failed has stored no Document.
SaveFailed(r) == r.pc \in {"failed", "notSignedIn"}

C13_FailedSaveKeepsReady ==
    [][\A i \in 1..Len(saves) :
          (~SaveFailed(saves[i]) /\ SaveFailed(saves'[i])) =>
              /\ easyHasSaved' = easyHasSaved
              /\ easyRead' = easyRead
              /\ mounted' = mounted
              /\ documents' = documents
              /\ \A c \in created : c.save # i]_vars

C13_FailedSaveStillReady ==
    /\ mounted
    /\ ReadyUnsaved
    /\ \E i \in 1..Len(saves) : saves[i].pc = "failed" /\ saves[i].status = 0
    /\ \E i \in 1..Len(saves) : saves[i].pc = "notSignedIn"

ExtractedOnly ==
    /\ mounted
    /\ Interactive
    /\ Trim(extractedText) # <<>>
    /\ ~hasEasyRead
    /\ Len(saves) < MaxSaves

StartsSave == (EasySave \/ SaveAndLeave) /\ Len(saves') > Len(saves)

DeleteFailedAt(c) == c.op = "delete" /\ c.pc \in {"failed", "notSignedIn"}
C18_FailedDeleteKeepsItem ==
    [][\A i \in 1..MaxCalls :
          (~DeleteFailedAt(dcalls[i]) /\ DeleteFailedAt(dcalls'[i]))
          => visibleDocs' = visibleDocs]_vars

\* the server answered 404 and the item is still listed
C18_NotFoundStillListed ==
    \E i \in 1..MaxCalls :
        /\ dcalls[i].op = "delete" /\ dcalls[i].pc = "failed"
        /\ dcalls[i].status = 404
        /\ alert = "Delete Failed"
        /\ \E k \in 1..Len(visibleDocs) :
               visibleDocs[k].id = dcalls[i].doc[1].id

\* C19: opening a pdf document whose fileUrl is missing, or names a file that
\* is not on this device, renders the document anew from its content and
\* opens that: such an open goes on to the rendering and never ends in the
\* "PDF not available" error (a rendering that itself throws is left aside).
C19_MissingFileRegenerates ==
    \A i \in 1..MaxCalls :
        (dcalls[i].op = "open" /\ dcalls[i].status = 2)
        => /\ dcalls[i].pc \in {"print", "done", "failed"}
           /\ alert # "PDF not available"

\* C21: when the upstream rewrite service answers with a non-2xx status, the
\* caller of rewriteEasyRead gets an error that carries that status and the
\* upstream detail, and that differs from what it gets for an unreachable
\* network and for an answer without usable text.
C21_ServiceFailureDistinct ==
    (rw.pc = "returned" /\ rw.up.kind = "status")
    => /\ rw.result.threw
       /\ rw.result.quoted = rw.up.status
       /\ rw.result.detail = rw.up.detail
       /\ rw.result # rewriteEasyReadResult(FALSE, NoAnswer)
       /\ rw.result # rewriteEasyReadResult(TRUE,
               aiRewrite(rw.sentence, Upstream("nochoices", 200, "", <<>>)))

\* C22: in the list GET /api/my-documents returns, a document with a later
\* createdAt stands before every document with an earlier createdAt.
C22_NewestFirst ==
    (resp.op = "list" /\ resp.status = 200)
    => \A i \in 1..Len(resp.list) : \A j \in 1..Len(resp.list) :
           resp.list[i].createdAt > resp.list[j].createdAt => i < j

\* C23: after any registrations and profile updates no two users have
\* emails that are equal when letter case is ignored.
C23_EmailsUniqueIgnoringCase ==
    \A u \in users : \A v \in users :
        EmailNorm(u.email) = EmailNorm(v.email) => u = v

\* C24: whenever logout is invoked, the token and the user are cleared from
\* memory and from storage: at the step that ends a logout call, all four
\* are empty.
C24_LogoutClearsSession ==
    [][\A i \in 1..MaxAuthCalls :
          (/\ authCalls'[i].op = "logout"
           /\ AuthSettled(authCalls'[i])
           /\ authCalls'[i] # authCalls[i])
          => /\ sessionToken' = NoToken
             /\ sessionUser' = 0
             /\ authToken' = NoToken
             /\ storedUser' = 0]_vars

\* C25: the saved flag is set only while the simplified result the screen
\* holds is one a Document has been stored for.
C25_SavedFlagMeansHeldResultStored ==
    easyHasSaved => (easyId # 0 /\ easyId \in StoredRids)

\* C26: a simplification that becomes the result the screen holds was
\* requested for the text extracted from the source selected now: at the
\* step where a rewrite call returns and its result is taken, the text the
\* call was made with is the current extracted text.
C26_ResultIsOfCurrentSource ==
    [][(/\ trans # <<>>
        /\ trans' = Tail(trans)
        /\ easyId' # easyId
        /\ easyId' # 0)
       => Head(trans) = extractedText']_vars

\* C27: the Document a save of the screen has stored has, as its fileUrl,
\* the path of the file that save rendered and wrote.
C27_FileUrlIsWrittenPath ==
    \A c \in created : \A d \in documents :
        d.id = c.doc => d.fileUrl = SaveArgs(c.save).url

\* C28: every stored document belongs to a user that exists; none is left of
\* an account that has been deleted.
C28_DocumentsHaveOwners ==
    \A d \in documents : d.userId \in UserIds

\* C30: no two users share an id, and a registration with a name, a
\* password and an email no user has (in any letter case) succeeds: it is
\* never refused because the id it was given is taken.
C30_FreshEmailRegisters ==
    [][/\ \A u \in users' : \A v \in users' : u.id = v.id => u = v
       /\ \A n \in Names, e \in Emails, p \in Passwords :
              (/\ Register(n, e, p)
               /\ n # "" /\ p # ""
               /\ \A u \in users : EmailNorm(u.email) # EmailNorm(e))
              => resp'.status = 201]_vars

\* C29: on the url screen loading does not stay true forever: while the
\* screen is mounted, loading = true leads to loading = false, also when an
\* extraction script posts no result.
C29_LoadingEnds ==
    (loading /\ mounted) ~> (~loading \/ ~mounted)
====
